---- MODULE Spec2Model ----
(***************************************************************************)
(* A state-machine model of scrape_university_towns.py: the driver loop of *)
(* scrape_university_towns, the per-item loop of get_towns_from_state, the *)
(* corroboration check check_college_town_status with relevant_section,    *)
(* write_to_txt, and the state bookkeeping of the reader                   *)
(* get_list_of_university_towns of university_town_recession_ttest.py.     *)
(*                                                                         *)
(* Texts are TLA+ strings handled as character sequences (Len, SubSeq,     *)
(* \o), so get_text, lower, the citation regular expression, substring     *)
(* tests and slicing are computed on the characters.                       *)
(*                                                                         *)
(* The parsed list page is a sequence of sibling block elements (h2, h3,   *)
(* ul).  The whitespace text node that the page's markup puts between two  *)
(* elements is not stored: previous_sibling.previous_sibling of an element *)
(* is the element before it.                                               *)
(***************************************************************************)
EXTENDS Naturals, Sequences, FiniteSets, TLC

VARIABLES
    tree,       \* the parsed list page (soup); item link texts are mutable
    pc,         \* position of the script
    raised,     \* source line of the exception that ended the script, else 0
    tag,        \* index in tree of the current h3 heading, 0 for None
    town_list,  \* get_towns_from_state: paths of the li items to visit
    idx,        \* get_towns_from_state: position in town_list
    towns,      \* get_towns_from_state: lines accepted so far
    data,       \* scrape_university_towns: the output list
    file,       \* university_towns.txt: <<>> until written, then <<lines>>
    visits,     \* history: one record per item get_towns_from_state looked at
    sections,   \* history: one record per iteration of the driver loop
    run,        \* 1 in the script's run; 2 in a repeated run over the same tree
    first       \* the output list the first run returned (repeated runs only)

vars == <<tree, pc, raised, tag, town_list, idx, towns, data, file, visits,
          sections, run, first>>

----------------------------------------------------------------------------
(* Bounds of the model *)

MaxBody == 3      \* elements between the anchor heading and the page's tail
MaxPageLen == 2   \* block elements of a town's article

----------------------------------------------------------------------------
(* Strings *)

Upper == "ABCDEFGHIJKLMNOPQRSTUVWXYZ"
LowerAlpha == "abcdefghijklmnopqrstuvwxyz"
Digits == "0123456789"

Char(s, i) == SubSeq(s, i, i)

UpperChars == {Char(Upper, k) : k \in 1..Len(Upper)}
DigitChars == {Char(Digits, k) : k \in 1..Len(Digits)}

LowerOf ==
    [c \in UpperChars |->
        Char(LowerAlpha, CHOOSE k \in 1..Len(Upper) : Char(Upper, k) = c)]

LowerChar(c) == IF c \in UpperChars THEN LowerOf[c] ELSE c

RECURSIVE Lower(_)
Lower(s) == IF Len(s) = 0 THEN "" ELSE LowerChar(Char(s, 1)) \o Lower(Tail(s))

\* Python's `sub in s`
Contains(s, sub) ==
    \E k \in 1..(Len(s) + 1) :
        k + Len(sub) - 1 <= Len(s) /\ SubSeq(s, k, k + Len(sub) - 1) = sub

\* Number of non-overlapping occurrences of sub in s (Python's s.count(sub))
RECURSIVE Count(_, _)
Count(s, sub) ==
    IF Len(sub) = 0 \/ Len(s) < Len(sub) THEN 0
    ELSE IF SubSeq(s, 1, Len(sub)) = sub
         THEN 1 + Count(SubSeq(s, Len(sub) + 1, Len(s)), sub)
         ELSE Count(Tail(s), sub)

\* s[:-n]
DropLast(s, n) == IF Len(s) <= n THEN "" ELSE SubSeq(s, 1, Len(s) - n)

\* re.findall('\[([0-9]{1,2})\]', line): the captured digit strings, in order
RECURSIVE FindSources(_)
FindSources(line) ==
    IF Len(line) < 3 THEN <<>>
    ELSE IF /\ Char(line, 1) = "["
            /\ Char(line, 2) \in DigitChars
            /\ Char(line, 3) = "]"
         THEN <<SubSeq(line, 2, 2)>> \o FindSources(SubSeq(line, 4, Len(line)))
    ELSE IF /\ Len(line) >= 4
            /\ Char(line, 1) = "["
            /\ Char(line, 2) \in DigitChars
            /\ Char(line, 3) \in DigitChars
            /\ Char(line, 4) = "]"
         THEN <<SubSeq(line, 2, 3)>> \o FindSources(SubSeq(line, 5, Len(line)))
    ELSE FindSources(Tail(line))

RECURSIVE Concat(_)
Concat(ss) == IF ss = <<>> THEN "" ELSE Head(ss) \o Concat(Tail(ss))

RECURSIVE Flatten(_)
Flatten(ss) == IF ss = <<>> THEN <<>> ELSE Head(ss) \o Flatten(Tail(ss))

SelectIdx(seq, Test(_)) ==
    LET RECURSIVE Sel(_)
        Sel(k) == IF k > Len(seq) THEN <<>>
                  ELSE (IF Test(seq[k]) THEN <<k>> ELSE <<>>) \o Sel(k + 1)
    IN Sel(1)

----------------------------------------------------------------------------
(* Program constants *)

good_sources == {"7", "9", "13", "15", "16", "17", "22", "24", "28", "30", "34",
                 "37", "38", "40", "41", "43", "50", "54"}

big_cities == {"Los Angeles", "Sacramento", "Atlanta", "Chicago", "Detroit",
               "Cleveland", "Columbus", "Johnstown", "Lower Merion Township",
               "Philadelphia", "Pittsburgh", "State College", "Providence"}

AnchorText == "College towns in the United States"
AnchorId == "College_towns_in_the_United_States"

----------------------------------------------------------------------------
(* The list page: sibling block elements *)

\* An h2 or h3 heading: a headline span (id, text) followed by the section-edit
\* link, so get_text() is the headline followed by "[edit]".
H2(id, headline) ==
    [kind |-> "h2", id |-> id, span |-> headline, items |-> <<>>]
H3(headline) ==
    [kind |-> "h3", id |-> headline, span |-> headline, items |-> <<>>]
UL(items) ==
    [kind |-> "ul", id |-> "", span |-> "", items |-> items]

HeadingText(node) == node.span \o "[edit]"

\* One piece of a list item: a hyperlink (a) or plain text
A(text, href) == [link |-> TRUE, text |-> text, href |-> href]
Txt(text) == [link |-> FALSE, text |-> text, href |-> ""]

\* A list item: its own pieces, then the nested list it holds, if any
Leaf(parts) == [parts |-> parts, sub |-> "none", kids |-> <<>>]
Parent(parts, sub, kids) == [parts |-> parts, sub |-> sub, kids |-> kids]

Cite(n) == A("[" \o n \o "]", "#cite_note-" \o n)

Athens ==
    Leaf(<<A("Athens", "/wiki/Athens"), Txt(" ("), A("Ohio U", "/wiki/OU"),
           Txt(")"), Cite("7")>>)
Ames ==
    Leaf(<<A("Ames", "/wiki/Ames"), Txt(" ("), A("Rio U", "/wiki/RU"),
           Txt(")"), Cite("8"), Cite("54")>>)
Smalltown ==
    Leaf(<<A("Smalltown", "/wiki/Smalltown"), Txt(" ("),
           A("Rio U", "/wiki/RU"), Txt(", "),
           A("Kent U", "/wiki/KU"), Txt(")["),
           A("citation needed", "/wiki/CN"), Txt("]")>>)
Loop ==
    Leaf(<<A("Loop", "/wiki/Loop"), Txt(" ("), A("Rio U", "/wiki/RU"),
           Txt(")"), Cite("7")>>)
Hyde ==
    Leaf(<<A("Hyde", "/wiki/Hyde"), Txt(" ("),
           A("Rio U", "/wiki/RU"), Txt(")"), Cite("8"), Cite("123")>>)
Chicago == Parent(<<A("Chicago", "/wiki/Chicago")>>, "ul", <<Loop>>)
Boston == Parent(<<A("Boston", "/wiki/Boston")>>, "ul", <<Hyde, Loop>>)
Atlanta ==
    Parent(<<A("Atlanta", "/wiki/Atlanta"), Txt(" ("),
             A("Rio U", "/wiki/RU"), Txt(")")>>, "ol", <<Loop>>)

Items == {Athens, Ames, Smalltown, Chicago, Boston, Atlanta}

RECURSIVE SeqsUpTo(_, _)
SeqsUpTo(S, n) ==
    IF n = 0 THEN {<<>>}
    ELSE LET shorter == SeqsUpTo(S, n - 1)
         IN shorter \cup {Append(q, x) : q \in shorter, x \in S}

\* The lists a state section may hold
Lists == {<<Athens>>, <<Smalltown, Ames>>, <<Chicago>>, <<Boston>>,
          <<Atlanta>>}

StateNames == <<"Ohio", "Iowa", "Utah", "Guam", "Texas", "Idaho", "Maine">>

Anchor == H2(AnchorId, AnchorText)
Other == H2("See_also", "See also")

\* The elements that may follow the anchor heading; a state heading gets its
\* name from its position
BodyKinds == {H3("")} \cup {UL(l) : l \in Lists}

\* Give each h3 of a page the next state name
RECURSIVE Name(_, _)
Name(body, k) ==
    IF body = <<>> THEN <<>>
    ELSE IF Head(body).kind = "h3"
         THEN <<H3(StateNames[k])>> \o Name(Tail(body), k + 1)
         ELSE <<Head(body)>> \o Name(Tail(body), k)

Heads == {<<>>, <<Anchor>>}
Tails == {<<>>, <<Other>>, <<Other, H3("")>>,
          <<Other, UL(<<Athens>>), H3("")>>}
Documents ==
    {Name(h \o b \o t, 1) : h \in Heads, b \in SeqsUpTo(BodyKinds, MaxBody),
                            t \in Tails}

----------------------------------------------------------------------------
(* Town articles *)

El(name, text) == [name |-> name, text |-> text]

PageElements ==
    {El("p", "Home of Rio U."),
     El("p", "Rio U: RIO U!"),
     El("table", "Kent U, rio u"),
     El("div", "Rio U, Rio U"),
     El("h2", "Economy"),
     El("h2", "History")}

Page(cat, nodes) == [cat |-> cat, nodes |-> nodes]

\* cat: the catlinks div holds a link to uni_towns_link
Pages == {Page(c, n) : c \in BOOLEAN, n \in SeqsUpTo(PageElements, MaxPageLen)}

----------------------------------------------------------------------------
(* Navigation in the list page *)

\* A path <<n, i, k>> names an li: item i of the list tree[n] when k = 0,
\* otherwise child k of the list nested in that item.
ItemAt(t, path) ==
    IF path[3] = 0 THEN t[path[1]].items[path[2]]
    ELSE t[path[1]].items[path[2]].kids[path[3]]

\* item.find_all('ul')
HasNestedUl(item) == item.sub = "ul"

\* As FindAllLi, had the search stopped at the list's own items
\* (find_all('li', recursive=False))
FindAllLiDirect(t, n) == [i \in 1..Len(t[n].items) |-> <<n, i, 0>>]

\* ul.find_all('li'): every li below the list, in document order
FindAllLi(t, n) ==
    Flatten([i \in 1..Len(t[n].items) |->
                <<<<n, i, 0>>>> \o
                [k \in 1..Len(t[n].items[i].kids) |-> <<n, i, k>>]])

RECURSIVE GetText(_)
\* item.get_text(): the item's own pieces, then the text of its nested list
GetText(item) ==
    Concat([j \in 1..Len(item.parts) |-> item.parts[j].text]) \o
    (IF item.sub = "none" THEN ""
     ELSE "\n" \o Concat([k \in 1..Len(item.kids) |->
                             GetText(item.kids[k]) \o "\n"]))

RECURSIVE FindAllA(_)
\* item.find_all('a'): the texts of the links below the item, in document order
FindAllA(item) ==
    LET own == SelectSeq(item.parts, LAMBDA part : part.link)
    IN [j \in 1..Len(own) |-> own[j].text] \o
       Flatten([k \in 1..Len(item.kids) |-> FindAllA(item.kids[k])])

\* Index of the piece item.find_next('a') returns: the item's first link
FirstLink(item) == CHOOSE j \in 1..Len(item.parts) :
                       /\ item.parts[j].link
                       /\ \A h \in 1..(j - 1) : ~item.parts[h].link

\* The links of one block element, in document order
NodeLinks(node) ==
    IF node.kind = "ul"
    THEN Flatten([i \in 1..Len(node.items) |-> FindAllA(node.items[i])])
    ELSE <<"edit">>

\* item.parent.parent.find_next('a').text
City(t, path) ==
    IF path[3] # 0
    THEN LET li == t[path[1]].items[path[2]] IN li.parts[FirstLink(li)].text
    ELSE Head(Flatten([n \in 1..Len(t) |-> NodeLinks(t[n])]))

\* item.parent.previous_sibling.previous_sibling.name != 'h3'
NotUnderH3(t, path) ==
    IF path[3] # 0 THEN TRUE ELSE t[path[1] - 1].kind # "h3"

\* The tree after lines 137-141 for the item at path
Appended(name, city) == name \o ", " \o city

SetName(t, path, name) ==
    LET n == path[1]
        i == path[2]
        k == path[3]
        j == FirstLink(ItemAt(t, path))
    IN IF k = 0
       THEN [t EXCEPT ![n].items[i].parts[j].text = name]
       ELSE [t EXCEPT ![n].items[i].kids[k].parts[j].text = name]

Rewrite(t, path) ==
    LET item == ItemAt(t, path)
    IN IF NotUnderH3(t, path) /\ City(t, path) \in big_cities
       THEN SetName(t, path,
                    Appended(item.parts[FirstLink(item)].text, City(t, path)))
       ELSE t

\* tag.find_next('h3') from element n (0 when there is none)
NextKind(t, n, kind) ==
    IF \E m \in (n + 1)..Len(t) : t[m].kind = kind
    THEN CHOOSE m \in (n + 1)..Len(t) :
             /\ t[m].kind = kind
             /\ \A h \in (n + 1)..(m - 1) : t[h].kind # kind
    ELSE 0

\* tag.find_previous_sibling('h2') from element n (0 when there is none)
PrevKind(t, n, kind) ==
    IF \E m \in 1..(n - 1) : t[m].kind = kind
    THEN CHOOSE m \in 1..(n - 1) :
             /\ t[m].kind = kind
             /\ \A h \in (m + 1)..(n - 1) : t[h].kind # kind
    ELSE 0

\* soup.find('span', id = 'College_towns_in_the_United_States')
FindAnchor(t) ==
    IF \E m \in 1..Len(t) : t[m].id = AnchorId
    THEN CHOOSE m \in 1..Len(t) :
             /\ t[m].id = AnchorId
             /\ \A h \in 1..(m - 1) : t[h].id # AnchorId
    ELSE 0

----------------------------------------------------------------------------
(* check_college_town_status and relevant_section *)

\* relevant_section(tag) for element j of a town's article
relevant_section(nodes, j) ==
    /\ nodes[j].name \in {"p", "table"}
    /\ LET previous_heading ==
               IF \E m \in 1..(j - 1) : nodes[m].name = "h2"
               THEN CHOOSE m \in 1..(j - 1) :
                        /\ nodes[m].name = "h2"
                        /\ \A h \in (m + 1)..(j - 1) : nodes[h].name # "h2"
               ELSE 0
       IN \/ previous_heading = 0
          \/ Contains(Lower(nodes[previous_heading].text), "economy")

\* soup.find_all(relevant_section)
RelevantParas(page) ==
    LET picked == SelectIdx([j \in 1..Len(page.nodes) |-> j],
                            LAMBDA j : relevant_section(page.nodes, j))
    IN [m \in 1..Len(picked) |-> page.nodes[picked[m]]]

\* Lines 73-75: the lower-cased texts of the item's links after the first
IsUniversity(text) == text # "citation needed" /\ ~Contains(text, "[")

Universities(item) ==
    LET links == Tail(FindAllA(item))
        kept == SelectSeq(links, IsUniversity)
    IN [j \in 1..Len(kept) |-> Lower(kept[j])]

\* Line 92: para.get_text().lower() of each relevant element
ParaTexts(page) ==
    LET paras == RelevantParas(page)
    IN [m \in 1..Len(paras) |-> Lower(paras[m].text)]

\* Lines 90-93: ref_count for one university
RefCount(uni, texts) ==
    Len(SelectSeq(texts, LAMBDA text : Contains(text, uni)))

\* Lines 89-97: the result of the mention scan
Threshold == 2

RefCounts(universities, texts) ==
    [j \in 1..Len(universities) |-> RefCount(universities[j], texts)]

MentionScan(ref_counts) ==
    \E j \in 1..Len(ref_counts) : ref_counts[j] >= Threshold

\* As HasCategoryLink, had line 82 named a link no article carries
HasCategoryLinkMistyped(page) == FALSE

\* Line 84: the catlinks div holds a link to the university towns category
HasCategoryLink(page) == page.cat

\* As HasGoodSource, had line 145 asked every marker to be a good source
HasOnlyGoodSources(line) ==
    LET sources == FindSources(line)
    IN sources # <<>> /\ \A j \in 1..Len(sources) : sources[j] \in good_sources

\* Lines 143-145: the line carries a citation marker of good_sources
HasGoodSource(line) ==
    LET sources == FindSources(line)
    IN sources # <<>> /\ \E j \in 1..Len(sources) : sources[j] \in good_sources

\* tag.find_next('a')['href']
Href(item) == item.parts[FirstLink(item)].href

----------------------------------------------------------------------------
(* History records *)

\* The in-scope mentions of one university: occurrences of its name in the
\* elements relevant_section accepts
RECURSIVE Mentions(_, _)
Mentions(uni, texts) ==
    IF texts = <<>> THEN 0
    ELSE Count(Head(texts), uni) + Mentions(uni, Tail(texts))

Largest(counts) ==
    IF counts = <<>> THEN 0
    ELSE CHOOSE v \in {counts[j] : j \in 1..Len(counts)} :
             \A j \in 1..Len(counts) : counts[j] <= v

\* What the scan of lines 88-97 yields for the relevant texts of an article:
\* its result, the largest ref_count and the largest number of in-scope
\* mentions of one university
Scan(universities, texts) ==
    LET ref_counts == RefCounts(universities, texts)
    IN [status |-> MentionScan(ref_counts),
        refs |-> Largest(ref_counts),
        mentions |-> Largest([j \in 1..Len(universities) |->
                                 Mentions(universities[j], texts)])]

\* The articles line 84 finds the category link in, and the others
CategoryPages == {page \in Pages : HasCategoryLink(page)}
ScannedPages == {page \in Pages : ~HasCategoryLink(page)}

\* What the scan reads of the articles it runs on
ScannedTexts ==
    {[cat |-> page.cat, texts |-> ParaTexts(page)] : page \in ScannedPages}

\* The results the scan can give for the universities of an item, over the
\* articles it runs on; computed once for the items of the page
AllItems ==
    Items \cup UNION {{i.kids[k] : k \in 1..Len(i.kids)} : i \in Items}

ScanTable ==
    [universities \in {Universities(item) : item \in AllItems} |->
        {[cat |-> soup.cat, scan |-> Scan(universities, soup.texts)] :
            soup \in ScannedTexts}]

ScanResults(universities) ==
    IF universities \in DOMAIN ScanTable
    THEN ScanTable[universities]
    ELSE {[cat |-> soup.cat, scan |-> Scan(universities, soup.texts)] :
             soup \in ScannedTexts}

Visit(path, line) ==
    [path |-> path, sect |-> tag, line |-> line, url |-> "", skipped |-> FALSE,
     checked |-> FALSE, failed |-> FALSE, cat |-> FALSE, scanned |-> FALSE,
     refs |-> 0, mentions |-> 0, accepted |-> FALSE]

----------------------------------------------------------------------------
(* The script *)

Init ==
    /\ tree \in Documents
    /\ pc = "start"
    /\ raised = 0
    /\ tag = 0
    /\ town_list = <<>>
    /\ idx = 0
    /\ towns = <<>>
    /\ data = <<>>
    /\ file = [written |-> FALSE, lines |-> <<>>]
    /\ visits = <<>>
    /\ sections = <<>>
    /\ run = 1
    /\ first = <<>>

\* Lines 170-176 when soup.find returns None: None.find_next raises
AnchorMissing ==
    /\ pc = "start"
    /\ FindAnchor(tree) = 0
    /\ pc' = "crashed"
    /\ raised' = 176
    /\ UNCHANGED <<tree, tag, town_list, idx, towns, data, file, visits,
                   sections, run, first>>

\* Lines 170-176: data = [], the first h3 after the anchor span
FindFirstState ==
    /\ pc = "start"
    /\ FindAnchor(tree) # 0
    /\ data' = <<>>
    /\ tag' = NextKind(tree, FindAnchor(tree), "h3")
    /\ pc' = "while"
    /\ UNCHANGED <<raised, tree, town_list, idx, towns, file, visits,
                   sections, run, first>>

\* Line 179: the loop condition holds
InAnchorSection ==
    /\ tag # 0
    /\ PrevKind(tree, tag, "h2") # 0
    /\ tree[PrevKind(tree, tag, "h2")].span = AnchorText

\* Line 179 when tag is None or no h2 sibling precedes it: the test raises
LoopTestRaises ==
    /\ pc = "while"
    /\ IF tag = 0 THEN TRUE ELSE PrevKind(tree, tag, "h2") = 0
    /\ pc' = "crashed"
    /\ raised' = 179
    /\ UNCHANGED <<tree, tag, town_list, idx, towns, data, file, visits,
                   sections, run, first>>

\* Line 179 false, line 186: the function returns data
LoopExit ==
    /\ pc = "while"
    /\ tag # 0
    /\ PrevKind(tree, tag, "h2") # 0
    /\ ~InAnchorSection
    /\ pc' = "returned"
    /\ UNCHANGED <<raised, tree, tag, town_list, idx, towns, data, file,
                   visits, sections, run, first>>

\* Lines 180-182, 128-129 when no ul follows the heading: None.find_all raises
ListMissing ==
    /\ pc = "while"
    /\ InAnchorSection
    /\ NextKind(tree, tag, "ul") = 0
    /\ data' = Append(data, HeadingText(tree[tag]) \o "\n")
    /\ sections' = Append(sections, tag)
    /\ pc' = "crashed"
    /\ raised' = 129
    /\ UNCHANGED <<tree, tag, town_list, idx, towns, file, visits, run,
                   first>>

\* Lines 180-182, 128-129: the state label, then the items of the next ul
EnterState ==
    /\ pc = "while"
    /\ InAnchorSection
    /\ NextKind(tree, tag, "ul") # 0
    /\ data' = Append(data, HeadingText(tree[tag]) \o "\n")
    /\ sections' = Append(sections, tag)
    /\ towns' = <<>>
    /\ town_list' = FindAllLi(tree, NextKind(tree, tag, "ul"))
    /\ idx' = 1
    /\ pc' = "items"
    /\ UNCHANGED <<raised, tree, tag, file, visits, run, first>>

AtItem == pc = "items" /\ idx <= Len(town_list)

\* Lines 133-134: an item holding a nested ul is passed over
SkipParent ==
    /\ AtItem
    /\ LET path == town_list[idx]
           item == ItemAt(tree, path)
       IN /\ HasNestedUl(item)
          /\ visits' = Append(visits, [Visit(path, "") EXCEPT !.skipped = TRUE])
    /\ idx' = idx + 1
    /\ UNCHANGED <<raised, tree, pc, tag, town_list, towns, data, file,
                   sections, run, first>>

\* Lines 136-147: a line with a good source is appended
AcceptSourced ==
    /\ AtItem
    /\ LET path == town_list[idx]
           after == Rewrite(tree, path)
           line == GetText(ItemAt(after, path))
       IN /\ ~HasNestedUl(ItemAt(tree, path))
          /\ HasGoodSource(line)
          /\ tree' = after
          /\ towns' = Append(towns, line \o "\n")
          /\ visits' = Append(visits,
                              [Visit(path, line) EXCEPT !.accepted = TRUE])
    /\ idx' = idx + 1
    /\ UNCHANGED <<raised, pc, tag, town_list, data, file, sections, run,
                   first>>

\* Lines 136-150, 67-77 when requests.get raises: nothing catches it
FetchRaises ==
    /\ AtItem
    /\ LET path == town_list[idx]
           after == Rewrite(tree, path)
           item == ItemAt(after, path)
           line == GetText(item)
       IN /\ ~HasNestedUl(ItemAt(tree, path))
          /\ ~HasGoodSource(line)
          /\ tree' = after
          /\ visits' = Append(visits,
                              [Visit(path, line) EXCEPT !.url = Href(item),
                                                        !.checked = TRUE,
                                                        !.failed = TRUE])
    /\ pc' = "crashed"
    /\ raised' = 77
    /\ UNCHANGED <<tag, town_list, idx, towns, data, file, sections, run,
                   first>>

\* Lines 136-153, 67-85: the article links to the category; the town is appended
CategoryAccepts ==
    /\ AtItem
    /\ LET path == town_list[idx]
           after == Rewrite(tree, path)
           item == ItemAt(after, path)
           line == GetText(item)
       IN /\ ~HasNestedUl(ItemAt(tree, path))
          /\ ~HasGoodSource(line)
          /\ \E cat \in {page.cat : page \in CategoryPages} :
                visits' = Append(visits,
                                 [Visit(path, line) EXCEPT !.url = Href(item),
                                                           !.checked = TRUE,
                                                           !.cat = cat,
                                                           !.accepted = TRUE])
          /\ tree' = after
          /\ towns' = Append(towns, line \o "\n")
    /\ idx' = idx + 1
    /\ UNCHANGED <<raised, pc, tag, town_list, data, file, sections, run,
                   first>>

\* Lines 136-153, 67-97: no category link; the mention scan decides
ScanDecides ==
    /\ AtItem
    /\ LET path == town_list[idx]
           after == Rewrite(tree, path)
           item == ItemAt(after, path)
           line == GetText(item)
           universities == Universities(item)
       IN /\ ~HasNestedUl(ItemAt(tree, path))
          /\ ~HasGoodSource(line)
          /\ \E soup \in ScanResults(universities) :
                /\ towns' = IF soup.scan.status
                            THEN Append(towns, line \o "\n")
                            ELSE towns
                /\ visits' = Append(visits,
                                    [Visit(path, line) EXCEPT
                                        !.url = Href(item),
                                        !.checked = TRUE,
                                        !.cat = soup.cat,
                                        !.scanned = TRUE,
                                        !.refs = soup.scan.refs,
                                        !.mentions = soup.scan.mentions,
                                        !.accepted = soup.scan.status])
          /\ tree' = after
    /\ idx' = idx + 1
    /\ UNCHANGED <<raised, pc, tag, town_list, data, file, sections, run,
                   first>>

\* Lines 155, 183-184: the towns join data; on to the next h3
EndState ==
    /\ pc = "items"
    /\ idx > Len(town_list)
    /\ data' = data \o towns
    /\ tag' = NextKind(tree, tag, "h3")
    /\ pc' = "while"
    /\ UNCHANGED <<raised, tree, town_list, idx, towns, file, visits,
                   sections, run, first>>

\* Lines 209-210, 196-198: the returned list is written to the file
write_to_txt ==
    /\ pc = "returned"
    /\ file' = [written |-> TRUE, lines |-> data]
    /\ pc' = "written"
    /\ UNCHANGED <<raised, tree, tag, town_list, idx, towns, data, visits,
                   sections, run, first>>

Next ==
    \/ AnchorMissing
    \/ FindFirstState
    \/ LoopTestRaises
    \/ LoopExit
    \/ ListMissing
    \/ EnterState
    \/ SkipParent
    \/ AcceptSourced
    \/ FetchRaises
    \/ CategoryAccepts
    \/ ScanDecides
    \/ EndState
    \/ write_to_txt

Spec == Init /\ [][Next]_vars

\* A second call of scrape_university_towns on the soup the first call
\* returned from; nothing but the calls themselves touches the tree
RunAgain ==
    /\ pc = "returned"
    /\ run = 1
    /\ first' = data
    /\ run' = 2
    /\ pc' = "start"
    /\ UNCHANGED <<raised, tree, tag, town_list, idx, towns, data, file,
                   visits, sections>>

NextTwice == Next \/ RunAgain

SpecTwice == Init /\ [][NextTwice]_vars

----------------------------------------------------------------------------
(* get_list_of_university_towns: the state a line of the output belongs to *)

\* Lines 54-58 of university_town_recession_ttest.py: the value of `state`
\* when the loop reaches element k of unitowns
RECURSIVE StateOf(_, _)
StateOf(unitowns, k) ==
    IF k = 0 THEN ""
    ELSE IF Contains(unitowns[k], "[edit]") THEN DropLast(unitowns[k], 7)
    ELSE StateOf(unitowns, k - 1)

IsLabel(line) == Contains(line, "[edit]")

----------------------------------------------------------------------------
(* Properties *)

HasVisit == visits # <<>>
LastVisit == visits[Len(visits)]
LastItem == ItemAt(tree, LastVisit.path)

\* The line carries a bracketed marker of the allow-list
TrustedMarked(line) ==
    \E g \in good_sources : Contains(line, "[" \o g \o "]")

\* The line was appended to towns in this call, or in a call whose towns
\* went to data
Recorded(line) ==
    \E k \in 1..Len(data \o towns) : (data \o towns)[k] = line \o "\n"

\* A bracketed 1-2 digit marker outside the allow-list
UntrustedMarked(line) ==
    LET sources == FindSources(line)
    IN \E j \in 1..Len(sources) : sources[j] \notin good_sources

\* C1: an item that is not passed over as the parent of a nested list and
\* whose text carries a marker of good_sources is appended to towns, and
\* check_college_town_status is not called for it (no url is fetched),
\* whatever other markers it carries.  Every item is the last visit in the
\* state its loop iteration ends in, and visits are never changed afterwards.
C1_SourcedItemAcceptedUnchecked ==
    (HasVisit /\ ~LastVisit.skipped /\ TrustedMarked(LastVisit.line)) =>
        /\ LastVisit.accepted
        /\ ~LastVisit.checked
        /\ LastVisit.url = ""
        /\ Recorded(LastVisit.line)

\* C1 witness: an item carrying both an untrusted and a trusted marker was
\* appended without a call of the checker
C1_Witness ==
    /\ HasVisit
    /\ TrustedMarked(LastVisit.line)
    /\ UntrustedMarked(LastVisit.line)
    /\ LastVisit.accepted
    /\ ~LastVisit.checked

\* C2: a failed fetch for one candidate leaves the run going: the script is
\* not ended by it
C2_FetchFailureContained ==
    (HasVisit /\ LastVisit.failed) => pc # "crashed"

\* C3: a second run over the tree the first run left, with no article
\* consulted in either run, returns the list the first run returned
C3_SecondRunSameOutput ==
    (/\ run = 2
     /\ pc = "returned"
     /\ \A j \in 1..Len(visits) : ~visits[j].checked) => data = first

\* C4: on the slow path the checker returns true exactly when some one
\* university has at least Threshold mentions inside the relevant elements
C4_AcceptedIffTwoMentions ==
    (HasVisit /\ LastVisit.scanned) =>
        (LastVisit.accepted <=> LastVisit.mentions >= Threshold)

\* C5: a candidate without citation markers whose article carries the
\* category link is accepted, and the mention scan is not run for it
C5_CategoryLinkAcceptsWithoutScan ==
    (/\ HasVisit
     /\ LastVisit.checked
     /\ ~LastVisit.failed
     /\ FindSources(LastVisit.line) = <<>>
     /\ LastVisit.cat) =>
        /\ LastVisit.accepted
        /\ ~LastVisit.scanned
        /\ Recorded(LastVisit.line)

\* C5 witness: such a candidate was accepted by the category link
C5_Witness ==
    /\ HasVisit
    /\ LastVisit.checked
    /\ FindSources(LastVisit.line) = <<>>
    /\ LastVisit.cat
    /\ LastVisit.accepted
    /\ ~LastVisit.scanned

\* The names the items of the page start with
OriginalNames ==
    {item.parts[1].text : item \in AllItems}

\* C6: the record of an accepted item nested under a city carries the city
\* exactly once after the neighborhood's name when the city is a big city
\* and not at all otherwise; an item right under the h3 keeps its name
C6_CityAppendedOnce ==
    (HasVisit /\ LastVisit.accepted) =>
        LET path == LastVisit.path
            name == LastItem.parts[FirstLink(LastItem)].text
            city == City(tree, path)
        IN IF path[3] # 0
           THEN \E n \in OriginalNames :
                    name = IF city \in big_cities THEN n \o ", " \o city ELSE n
           ELSE tree[path[1] - 1].kind = "h3" => name \in OriginalNames

\* C7: with the anchor heading in the document the loop test of line 179
\* does not raise, and when scrape_university_towns has returned, the labels
\* in data are those of the h3 headings of the anchor section, in order
AnchorStates ==
    {s \in 1..Len(tree) :
        /\ tree[s].kind = "h3"
        /\ PrevKind(tree, s, "h2") # 0
        /\ tree[PrevKind(tree, s, "h2")].span = AnchorText}

LabelsOfAnchorSection ==
    /\ {sections[j] : j \in 1..Len(sections)} = AnchorStates
    /\ \A j \in 1..(Len(sections) - 1) : sections[j] < sections[j + 1]
    /\ SelectSeq(data, IsLabel) =
          [j \in 1..Len(sections) |-> HeadingText(tree[sections[j]]) \o "\n"]

C7_DriverLoopTerminates ==
    FindAnchor(tree) # 0 =>
        /\ raised # 179
        /\ (pc = "returned" /\ run = 1) => LabelsOfAnchorSection

\* C8: each accepted item gives one town line, and the state that line
\* belongs to is the state section the item stands in
AcceptedVisits == SelectSeq(visits, LAMBDA v : v.accepted)
TownLines == SelectIdx(data, LAMBDA line : ~IsLabel(line))

C8_TownUnderOwnState ==
    (pc = "returned" /\ run = 1) =>
        /\ Len(TownLines) = Len(AcceptedVisits)
        /\ \A m \in 1..Len(AcceptedVisits) :
              LET v == AcceptedVisits[m]
                  own == PrevKind(tree, v.path[1], "h3")
              IN /\ data[TownLines[m]] = v.line \o "\n"
                 /\ own # 0
                 /\ StateOf(data, TownLines[m]) = tree[own].span
                 /\ \A o \in 1..Len(AcceptedVisits) :
                       AcceptedVisits[o].path = v.path => o = m

\* The list that belongs to the state heading s: a ul before the next heading
OwnList(s) ==
    /\ NextKind(tree, s, "ul") # 0
    /\ \A m \in (s + 1)..(NextKind(tree, s, "ul") - 1) : tree[m].kind = "ul"

\* C9: the output file is written only for a document with the anchor
\* heading in which every state section came with its list
C9_NoFileOnStructuralError ==
    file.written =>
        /\ FindAnchor(tree) # 0
        /\ \A j \in 1..Len(sections) : OwnList(sections[j])

\* The call of get_towns_from_state for heading s has run to its end
Completed(s) == tag # s \/ (pc = "items" /\ idx > Len(town_list))

TimesVisited(s, path) ==
    Cardinality({j \in 1..Len(visits) :
                    visits[j].sect = s /\ visits[j].path = path})

====
